---- MODULE Spec2Model ----
(***************************************************************************)
(* lowbass's Blackjack Casino Game: the shoe (Deck), the hands (Hand), the *)
(* bankroll (Player) and the round engine (BlackjackGame.play_hand) of     *)
(* src/lowbass-blackjack-game.py as a state machine.                       *)
(*                                                                         *)
(* A Card object is modelled by its identity, a number 1..N in the order   *)
(* Deck.reset creates the cards; its rank and suit are fixed by that       *)
(* order, and its one mutable attribute is the state variable is_face_up.  *)
(* Hands and the two piles of the shoe hold card identities, so one Card   *)
(* object can sit in several of them, as in the program.                   *)
(*                                                                         *)
(* Money is counted in whole dollars.  The bets the player types are drawn *)
(* from BetInputs, all multiples of 100, so that bet * 2.5 is a whole      *)
(* number and the float arithmetic of the program is exact.                *)
(***************************************************************************)
EXTENDS Integers, Sequences, FiniteSets

VARIABLES
    deck,          \* BlackjackGame.deck: [cards, used_cards, running_count, random_state]
    is_face_up,    \* Card.is_face_up of every Card object
    player,        \* BlackjackGame.player: [balance, total_winnings, hands_played, hands_won]
    dealer_hand,   \* BlackjackGame.dealer_hand: <<>> is None, <<h>> a Hand
    player_hands,  \* BlackjackGame.player_hands
    hand_bets,     \* BlackjackGame.hand_bets, keyed by the identity of the Hand
    hand_index,    \* local hand_index of player_turn
    running,       \* BlackjackGame.running
    pc,            \* position of the control flow
    results,       \* what the last evaluation returned (determine_winner per hand, get_value)
    last_op,       \* the operation the last step performed
    save_file,     \* the player's save file: <<>> when absent, <<record>> when written
    rounds,        \* rounds started (play_hand past the bet prompt)
    shoe_ops       \* calls made directly on the shoe: [draws, reshuffles, drawn]

vars == <<deck, is_face_up, player, dealer_hand, player_hands, hand_bets,
          hand_index, running, pc, results, last_op, save_file, rounds, shoe_ops>>

---------------------------------------------------------------------------
(* Bounds of the model *)

\* Deck(num_decks): the number of 52-card decks in the shoe.
NumDecks == 1

\* Number of permutations random.shuffle is allowed to pick from.
NumShuffles == 9

\* Rounds played in one session.
MaxRounds == 2

\* draw() calls made on a bare shoe.
MaxDraws == 53

\* reshuffle() calls made on a bare shoe.
MaxReshuffles == 1

\* Cards in a hand handed to get_value.
MaxHandCards == 3

---------------------------------------------------------------------------
(* Card *)

\* ranks of Deck.reset, in creation order
Ranks == <<"A", "2", "3", "4", "5", "6", "7", "8", "9", "10", "J", "Q", "K">>

\* the members of enum Suit, in iteration order
Suits == <<"SPADES", "HEARTS", "DIAMONDS", "CLUBS">>

DeckSize == Len(Suits) * Len(Ranks)

\* The Card objects Deck.reset creates: deck by deck, suit by suit, rank by rank.
CardIds == 1 .. (NumDecks * DeckSize)

card_rank(c) == Ranks[((c - 1) % Len(Ranks)) + 1]

card_suit(c) == Suits[(((c - 1) \div Len(Ranks)) % Len(Suits)) + 1]

\* int(self.rank) for the numeral ranks
int_of_rank(r) ==
    CASE r = "2" -> 2 [] r = "3" -> 3 [] r = "4" -> 4 [] r = "5" -> 5
      [] r = "6" -> 6 [] r = "7" -> 7 [] r = "8" -> 8 [] r = "9" -> 9
      [] r = "10" -> 10

\* Card.get_value: the list of possible values
card_get_value(c) ==
    IF card_rank(c) \in {"J", "Q", "K"} THEN <<10>>
    ELSE IF card_rank(c) = "A" THEN <<1, 11>>
    ELSE <<int_of_rank(card_rank(c))>>

\* get_hilo_value with the Ace left out of the high cards
get_hilo_value_ace_neutral(c) ==
    IF card_rank(c) \in {"10", "J", "Q", "K"} THEN -1
    ELSE IF card_rank(c) \in {"2", "3", "4", "5", "6"} THEN 1
    ELSE 0

\* Card.get_hilo_value
get_hilo_value(c) ==
    IF card_rank(c) \in {"10", "J", "Q", "K", "A"} THEN -1
    ELSE IF card_rank(c) \in {"2", "3", "4", "5", "6"} THEN 1
    ELSE 0

---------------------------------------------------------------------------
(* Deck *)

\* random.shuffle puts the list in any order.  The model lets it pick among
\* NumShuffles orders: the elements sorted by the key (position * m) mod 313,
\* for the multipliers m listed here (313 is a prime above every list length).
\* The generator is seeded once, when the game is built; the shuffles of a
\* session then take successive orders, starting from the seed.
\* The multipliers are chosen so that the first deals of a fresh shoe include
\* a pair of Aces, other pairs, naturals on either side, busts and pushes,
\* also of split and of doubled hands.
ShuffleMultipliers == <<245, 92, 7, 21, 44, 1, 113, 288, 77, 48>>

ShuffleChoices == 1 .. NumShuffles

shuffle(s, k) ==
    LET m    == ShuffleMultipliers[((k - 1) % Len(ShuffleMultipliers)) + 1]
        keys == [v \in 1 .. 312 |-> (v * m) % 313]
        idx  == SelectSeq(keys, LAMBDA i : i <= Len(s))
    IN  [j \in 1 .. Len(s) |-> s[idx[j]]]

\* The generator of module random after a shuffle made in state k.
next_random(k) == (k % NumShuffles) + 1

\* Deck.reset (called by Deck.__init__), the generator seeded with k.  The
\* field random_state is the state of the generator, which only the shoe uses.
reset(k) ==
    [cards         |-> shuffle([i \in 1 .. (NumDecks * DeckSize) |-> i], k),
     used_cards    |-> <<>>,
     running_count |-> 0,
     random_state  |-> next_random(k)]

\* needs_reshuffle that never asks for a reshuffle
needs_reshuffle_never(d) ==
    Len(d.cards) + Len(d.used_cards) < 0

\* needs_reshuffle with <= in place of <
needs_reshuffle_at_quarter(d) ==
    4 * Len(d.cards) <= Len(d.cards) + Len(d.used_cards)

\* Deck.needs_reshuffle: len(cards) < total * 0.25
needs_reshuffle(d) ==
    4 * Len(d.cards) < Len(d.cards) + Len(d.used_cards)

\* reshuffle that keeps used_cards
reshuffle_keeping_used(d) ==
    [d EXCEPT !.cards = shuffle(d.cards \o d.used_cards, d.random_state),
              !.random_state = next_random(d.random_state)]

\* reshuffle that starts the count again
reshuffle_resetting_count(d) ==
    [d EXCEPT !.cards = shuffle(d.cards \o d.used_cards, d.random_state),
              !.used_cards = <<>>,
              !.running_count = 0,
              !.random_state = next_random(d.random_state)]

\* Deck.reshuffle
reshuffle(d) ==
    [d EXCEPT !.cards = shuffle(d.cards \o d.used_cards, d.random_state),
              !.used_cards = <<>>,
              !.random_state = next_random(d.random_state)]

\* Deck.draw: the shoe after the call; the card returned is drawn_card of it.
\* cards.pop() raises IndexError on an empty list; the shoe claims state that
\* the list is never empty there.
draw(d) ==
    LET d1   == IF needs_reshuffle(d) THEN reshuffle(d) ELSE d
        card == d1.cards[Len(d1.cards)]
    IN  [d1 EXCEPT !.cards = SubSeq(d1.cards, 1, Len(d1.cards) - 1),
                   !.used_cards = Append(d1.used_cards, card),
                   !.running_count = d1.running_count + get_hilo_value(card)]

drawn_card(d) == d.used_cards[Len(d.used_cards)]

---------------------------------------------------------------------------
(* Hand *)

\* Hand.__init__
Hand(id, name, is_split) ==
    [id |-> id, name |-> name, cards |-> <<>>,
     is_standing |-> FALSE, is_busted |-> FALSE, is_split |-> is_split]

\* the inner loops of Hand.get_value: every current value plus every card value
extend_values(possible_values, card_vals) ==
    [n \in 1 .. (Len(possible_values) * Len(card_vals)) |->
        possible_values[((n - 1) \div Len(card_vals)) + 1]
        + card_vals[((n - 1) % Len(card_vals)) + 1]]

\* possible_values without the face-up test
RECURSIVE possible_values_all(_, _)
possible_values_all(cs, up) ==
    IF cs = <<>> THEN <<0>>
    ELSE extend_values(possible_values_all(SubSeq(cs, 1, Len(cs) - 1), up),
                       card_get_value(cs[Len(cs)]))

RECURSIVE possible_values(_, _)
possible_values(cs, up) ==
    IF cs = <<>> THEN <<0>>
    ELSE LET prev == possible_values(SubSeq(cs, 1, Len(cs) - 1), up)
             card == cs[Len(cs)]
         IN  IF ~up[card] THEN prev
             ELSE extend_values(prev, card_get_value(card))

SeqMax(s) == CHOOSE x \in {s[i] : i \in DOMAIN s} : \A i \in DOMAIN s : s[i] <= x

SeqMin(s) == CHOOSE x \in {s[i] : i \in DOMAIN s} : \A i \in DOMAIN s : s[i] >= x

\* Hand.get_value, for the cards cs under the face-up flags up
get_value(cs, up) ==
    LET pv    == possible_values(cs, up)
        valid == SelectSeq(pv, LAMBDA v : v <= 21)
    IN  IF valid # <<>> THEN SeqMax(valid) ELSE SeqMin(pv)

\* Hand.check_bust
check_bust(h, up) ==
    IF get_value(h.cards, up) > 21 THEN [h EXCEPT !.is_busted = TRUE] ELSE h

\* Hand.add_card
add_card(h, card, up) ==
    check_bust([h EXCEPT !.cards = Append(h.cards, card)], up)

\* is_blackjack without the split test
is_blackjack_any(h, up) ==
    Len(h.cards) = 2 /\ get_value(h.cards, up) = 21

\* Hand.is_blackjack
is_blackjack(h, up) ==
    Len(h.cards) = 2 /\ get_value(h.cards, up) = 21 /\ ~h.is_split

---------------------------------------------------------------------------
(* Player *)

StartingBalance == 1000

\* Player.__init__
NewPlayer ==
    [balance |-> StartingBalance, total_winnings |-> 0,
     hands_played |-> 0, hands_won |-> 0]

\* can_bet that lets every amount through
can_bet_always(p, amount) == p.balance >= amount \/ amount >= 0

\* Player.can_bet
can_bet(p, amount) == p.balance >= amount

\* Player.place_bet: the player after the call
place_bet(p, amount) ==
    IF can_bet(p, amount) THEN [p EXCEPT !.balance = p.balance - amount] ELSE p

\* Player.save_progress: the record written (the timestamp is left out)
save_data(p) ==
    [balance |-> p.balance, total_winnings |-> p.total_winnings,
     hands_played |-> p.hands_played, hands_won |-> p.hands_won]

---------------------------------------------------------------------------
(* BlackjackGame: the helpers of a round *)

\* what the player types at the bet prompt (float(bet_input))
BetInputs == {0, 100, 1000}

\* what the player types at the action prompt, after .lower(); "x" stands
\* for any unrecognized text
ActionInputs == {"h", "s", "d", "p", "x"}

\* del that leaves the entry in place
bets_del_nothing(bets, id) == [i \in DOMAIN bets |-> bets[i]]

\* self.hand_bets with hand id removed / set
bets_del(bets, id) == [i \in (DOMAIN bets) \ {id} |-> bets[i]]

bets_set(bets, id, amount) ==
    [i \in (DOMAIN bets) \cup {id} |-> IF i = id THEN amount ELSE bets[i]]

\* can_split without the rank test
can_split_any_two(h, bets, p) ==
    IF Len(h.cards) # 2 THEN FALSE
    ELSE IF ~can_bet(p, bets[h.id]) THEN FALSE
    ELSE TRUE

\* BlackjackGame.can_split
can_split(h, bets, p) ==
    IF Len(h.cards) # 2 THEN FALSE
    ELSE IF card_rank(h.cards[1]) # card_rank(h.cards[2]) THEN FALSE
    ELSE IF ~can_bet(p, bets[h.id]) THEN FALSE
    ELSE TRUE

\* BlackjackGame.deal_initial_cards on the shoe d, the flags up, the player's
\* hand ph and the dealer's hand dh.
deal_initial_cards(d, up, ph, dh) ==
    LET d1  == draw(d)
        ph1 == add_card(ph, drawn_card(d1), up)
        d2  == draw(d1)
        dh1 == add_card(dh, drawn_card(d2), up)
        d3  == draw(d2)
        ph2 == add_card(ph1, drawn_card(d3), up)
        d4  == draw(d3)
        up4 == [up EXCEPT ![drawn_card(d4)] = FALSE]
        dh2 == add_card(dh1, drawn_card(d4), up4)
    IN  [deck |-> d4, is_face_up |-> up4, player_hand |-> ph2, dealer_hand |-> dh2]

\* determine_winner with a push paying nothing
determine_winner_push_loses(h, dh, bets, up) ==
    LET player_val == get_value(h.cards, up)
        dealer_val == get_value(dh.cards, up)
        bet        == bets[h.id]
    IN  IF h.is_busted THEN [winner |-> "dealer", payout |-> 0]
        ELSE IF dh.is_busted THEN [winner |-> "player", payout |-> bet * 2]
        ELSE IF is_blackjack(h, up) /\ ~is_blackjack(dh, up)
             THEN [winner |-> "player", payout |-> (bet * 5) \div 2]
        ELSE IF is_blackjack(dh, up) /\ ~is_blackjack(h, up)
             THEN [winner |-> "dealer", payout |-> 0]
        ELSE IF player_val > dealer_val THEN [winner |-> "player", payout |-> bet * 2]
        ELSE IF dealer_val > player_val THEN [winner |-> "dealer", payout |-> 0]
        ELSE [winner |-> "push", payout |-> 0]

\* determine_winner with the blackjack tests ahead of the dealer-bust test
determine_winner_blackjack_first(h, dh, bets, up) ==
    LET player_val == get_value(h.cards, up)
        dealer_val == get_value(dh.cards, up)
        bet        == bets[h.id]
    IN  IF h.is_busted THEN [winner |-> "dealer", payout |-> 0]
        ELSE IF is_blackjack(h, up) /\ ~is_blackjack(dh, up)
             THEN [winner |-> "player", payout |-> (bet * 5) \div 2]
        ELSE IF dh.is_busted THEN [winner |-> "player", payout |-> bet * 2]
        ELSE IF is_blackjack(dh, up) /\ ~is_blackjack(h, up)
             THEN [winner |-> "dealer", payout |-> 0]
        ELSE IF player_val > dealer_val THEN [winner |-> "player", payout |-> bet * 2]
        ELSE IF dealer_val > player_val THEN [winner |-> "dealer", payout |-> 0]
        ELSE [winner |-> "push", payout |-> bet]

\* BlackjackGame.determine_winner for hand h against the dealer's hand dh
determine_winner(h, dh, bets, up) ==
    LET player_val == get_value(h.cards, up)
        dealer_val == get_value(dh.cards, up)
        bet        == bets[h.id]
    IN  IF h.is_busted THEN [winner |-> "dealer", payout |-> 0]
        ELSE IF dh.is_busted THEN [winner |-> "player", payout |-> bet * 2]
        ELSE IF is_blackjack(h, up) /\ ~is_blackjack(dh, up)
             THEN [winner |-> "player", payout |-> (bet * 5) \div 2]
        ELSE IF is_blackjack(dh, up) /\ ~is_blackjack(h, up)
             THEN [winner |-> "dealer", payout |-> 0]
        ELSE IF player_val > dealer_val THEN [winner |-> "player", payout |-> bet * 2]
        ELSE IF dealer_val > player_val THEN [winner |-> "dealer", payout |-> 0]
        ELSE [winner |-> "push", payout |-> bet]

\* the settlement loop of play_hand over hands[i..], from the running totals
\* acc = [balance, total_payout, hands_won, results]
RECURSIVE settle_hands(_, _, _, _, _, _)
settle_hands(hands, i, dh, bets, up, acc) ==
    IF i > Len(hands) THEN acc
    ELSE LET hand == hands[i]
             r    == determine_winner(hand, dh, bets, up)
             bet  == bets[hand.id]
             out  == [hand |-> hand.id, winner |-> r.winner, payout |-> r.payout, bet |-> bet]
             acc1 == IF r.winner = "player"
                     THEN [balance      |-> acc.balance + r.payout,
                           total_payout |-> acc.total_payout + r.payout,
                           hands_won    |-> acc.hands_won + 1,
                           results      |-> Append(acc.results, out)]
                     ELSE IF r.winner = "dealer"
                     THEN [acc EXCEPT !.results = Append(acc.results, out)]
                     ELSE [balance      |-> acc.balance + r.payout,
                           total_payout |-> acc.total_payout + r.payout,
                           hands_won    |-> acc.hands_won,
                           results      |-> Append(acc.results, out)]
         IN  settle_hands(hands, i + 1, dh, bets, up, acc1)

---------------------------------------------------------------------------
(* States shared by the specifications *)

AllFaceUp == [c \in CardIds |-> TRUE]

NoOp == [op |-> "none"]

\* BlackjackGame.__init__, with the shuffle choice k of Deck.reset
GameInit(k) ==
    /\ deck = reset(k)
    /\ is_face_up = AllFaceUp
    /\ player = NewPlayer
    /\ dealer_hand = <<>>
    /\ player_hands = <<>>
    /\ hand_bets = <<>>
    /\ hand_index = 0
    /\ running = TRUE
    /\ results = <<>>
    /\ last_op = NoOp
    /\ save_file = <<>>
    /\ rounds = 0
    /\ shoe_ops = [draws |-> 0, reshuffles |-> 0, drawn |-> <<>>]

---------------------------------------------------------------------------
(* BlackjackGame.play_hand: one session of rounds *)

Init ==
    /\ \E k \in ShuffleChoices : GameInit(k)
    /\ pc = "bet"

\* current_hand of player_turn: self.player_hands[hand_index]
current_hand == player_hands[hand_index + 1]

\* the current hand replaced by h
with_current(h) == [player_hands EXCEPT ![hand_index + 1] = h]

\* get_bet: a bet that is not positive or not affordable is refused and the
\* prompt comes again
BetRejected ==
    /\ pc = "bet"
    /\ \E bet \in BetInputs :
          /\ bet <= 0 \/ ~can_bet(player, bet)
          /\ last_op' = [op |-> "bet_rejected", input |-> bet]
    /\ UNCHANGED <<deck, is_face_up, player, dealer_hand, player_hands, hand_bets,
                   hand_index, running, pc, results, save_file, rounds, shoe_ops>>

\* get_bet: 'q' stops the game; play_hand returns, run ends and the atexit
\* shutdown saves the player
BetQuit ==
    /\ pc = "bet"
    /\ running' = FALSE
    /\ save_file' = <<save_data(player)>>
    /\ pc' = "exit"
    /\ last_op' = [op |-> "quit"]
    /\ UNCHANGED <<deck, is_face_up, player, dealer_hand, player_hands, hand_bets,
                   hand_index, results, rounds, shoe_ops>>

\* get_bet returns bet; play_hand places it, creates the hands, deals, and
\* enters player_turn
PlaceBetAndDeal ==
    /\ pc = "bet"
    /\ rounds < MaxRounds
    /\ \E bet \in BetInputs :
          /\ bet > 0 /\ can_bet(player, bet)
          /\ LET dealt == deal_initial_cards(deck, is_face_up,
                                             Hand(1, "Player", FALSE),
                                             Hand(0, "Dealer", FALSE))
             IN  /\ player' = place_bet(player, bet)
                 /\ player_hands' = <<dealt.player_hand>>
                 /\ hand_bets' = [i \in {1} |-> bet]
                 /\ dealer_hand' = <<dealt.dealer_hand>>
                 /\ deck' = dealt.deck
                 /\ is_face_up' = dealt.is_face_up
          /\ last_op' = [op |-> "bet", input |-> bet]
    /\ hand_index' = 0
    /\ pc' = "outer"
    /\ rounds' = rounds + 1
    /\ UNCHANGED <<running, results, save_file, shoe_ops>>

\* player_turn, top of the outer loop: a lone natural blackjack stands
AutoStandBlackjack ==
    /\ pc = "outer"
    /\ hand_index < Len(player_hands)
    /\ is_blackjack(current_hand, is_face_up) /\ Len(player_hands) = 1
    /\ player_hands' = with_current([current_hand EXCEPT !.is_standing = TRUE])
    /\ hand_index' = hand_index + 1
    /\ last_op' = [op |-> "auto_stand_blackjack", hand |-> current_hand.id]
    /\ UNCHANGED <<deck, is_face_up, player, dealer_hand, hand_bets, running, pc,
                   results, save_file, rounds, shoe_ops>>

\* is_split_ace of player_turn
is_split_ace(h) ==
    h.is_split /\ Len(h.cards) > 0 /\ card_rank(h.cards[1]) = "A"

\* player_turn, top of the outer loop: a split Ace with two cards stands
AutoStandSplitAce ==
    /\ pc = "outer"
    /\ hand_index < Len(player_hands)
    /\ ~(is_blackjack(current_hand, is_face_up) /\ Len(player_hands) = 1)
    /\ is_split_ace(current_hand) /\ Len(current_hand.cards) = 2
    /\ player_hands' = with_current([current_hand EXCEPT !.is_standing = TRUE])
    /\ hand_index' = hand_index + 1
    /\ last_op' = [op |-> "auto_stand_split_ace", hand |-> current_hand.id]
    /\ UNCHANGED <<deck, is_face_up, player, dealer_hand, hand_bets, running, pc,
                   results, save_file, rounds, shoe_ops>>

\* player_turn, top of the outer loop: otherwise the hand is played
EnterHand ==
    /\ pc = "outer"
    /\ hand_index < Len(player_hands)
    /\ ~(is_blackjack(current_hand, is_face_up) /\ Len(player_hands) = 1)
    /\ ~(is_split_ace(current_hand) /\ Len(current_hand.cards) = 2)
    /\ pc' = "inner"
    /\ last_op' = [op |-> "enter_hand", hand |-> current_hand.id]
    /\ UNCHANGED <<deck, is_face_up, player, dealer_hand, player_hands, hand_bets,
                   hand_index, running, results, save_file, rounds, shoe_ops>>

\* the inner loop asks for an action while the hand neither stands nor is busted
prompting ==
    /\ pc = "inner"
    /\ ~current_hand.is_standing /\ ~current_hand.is_busted

\* LeaveHand that passes over the next hand
LeaveHandSkipping ==
    /\ pc = "inner"
    /\ current_hand.is_standing \/ current_hand.is_busted
    /\ hand_index' = hand_index + 2
    /\ pc' = "outer"
    /\ last_op' = [op |-> "leave_hand", hand |-> current_hand.id]
    /\ UNCHANGED <<deck, is_face_up, player, dealer_hand, player_hands, hand_bets,
                   running, results, save_file, rounds, shoe_ops>>

\* player_turn, the inner loop ends: on to the next hand
LeaveHand ==
    /\ pc = "inner"
    /\ current_hand.is_standing \/ current_hand.is_busted
    /\ hand_index' = hand_index + 1
    /\ pc' = "outer"
    /\ last_op' = [op |-> "leave_hand", hand |-> current_hand.id]
    /\ UNCHANGED <<deck, is_face_up, player, dealer_hand, player_hands, hand_bets,
                   running, results, save_file, rounds, shoe_ops>>

\* action 'h'
Hit ==
    /\ prompting
    /\ LET d1 == draw(deck)
          IN  /\ deck' = d1
              /\ player_hands' = with_current(add_card(current_hand, drawn_card(d1), is_face_up))
    /\ last_op' = [op |-> "hit", hand |-> current_hand.id]
    /\ UNCHANGED <<is_face_up, player, dealer_hand, hand_bets, hand_index, running,
                   pc, results, save_file, rounds, shoe_ops>>

\* action 's'
Stand ==
    /\ prompting
    /\ player_hands' = with_current([current_hand EXCEPT !.is_standing = TRUE])
    /\ last_op' = [op |-> "stand", hand |-> current_hand.id]
    /\ UNCHANGED <<deck, is_face_up, player, dealer_hand, hand_bets, hand_index,
                   running, pc, results, save_file, rounds, shoe_ops>>

\* DoubleDown without the forced stand
DoubleDownNoStand ==
    /\ prompting
    /\ Len(current_hand.cards) = 2
    /\ can_bet(player, hand_bets[current_hand.id])
    /\ LET current_bet == hand_bets[current_hand.id]
              d1          == draw(deck)
              h1          == add_card(current_hand, drawn_card(d1), is_face_up)
          IN  /\ player' = place_bet(player, current_bet)
              /\ hand_bets' = bets_set(hand_bets, current_hand.id, hand_bets[current_hand.id] * 2)
              /\ deck' = d1
              /\ player_hands' = with_current(h1)
    /\ last_op' = [op |-> "double", hand |-> current_hand.id]
    /\ UNCHANGED <<is_face_up, dealer_hand, hand_index, running, pc, results,
                   save_file, rounds, shoe_ops>>

\* action 'd' on two cards, the balance covering the hand's bet
DoubleDown ==
    /\ prompting
    /\ Len(current_hand.cards) = 2
    /\ can_bet(player, hand_bets[current_hand.id])
    /\ LET current_bet == hand_bets[current_hand.id]
              d1          == draw(deck)
              h1          == add_card(current_hand, drawn_card(d1), is_face_up)
          IN  /\ player' = place_bet(player, current_bet)
              /\ hand_bets' = bets_set(hand_bets, current_hand.id, hand_bets[current_hand.id] * 2)
              /\ deck' = d1
              /\ player_hands' = with_current([h1 EXCEPT !.is_standing = TRUE])
    /\ last_op' = [op |-> "double", hand |-> current_hand.id]
    /\ UNCHANGED <<is_face_up, dealer_hand, hand_index, running, pc, results,
                   save_file, rounds, shoe_ops>>

\* 'd' on two cards carried out although the balance does not cover the bet:
\* place_bet refuses and its result is ignored
DoubleUnchecked ==
    /\ prompting
    /\ Len(current_hand.cards) = 2
    /\ ~can_bet(player, hand_bets[current_hand.id])
    /\ LET d1 == draw(deck)
           h1 == add_card(current_hand, drawn_card(d1), is_face_up)
       IN  /\ hand_bets' = bets_set(hand_bets, current_hand.id, hand_bets[current_hand.id] * 2)
           /\ deck' = d1
           /\ player_hands' = with_current([h1 EXCEPT !.is_standing = TRUE])
    /\ last_op' = [op |-> "double", hand |-> current_hand.id]
    /\ UNCHANGED <<is_face_up, player, dealer_hand, hand_index, running, pc, results,
                   save_file, rounds, shoe_ops>>

\* action 'd' on two cards, the balance not covering the hand's bet
DoubleRefused ==
    /\ prompting
    /\ Len(current_hand.cards) = 2
    /\ ~can_bet(player, hand_bets[current_hand.id])
    /\ last_op' = [op |-> "double_refused", hand |-> current_hand.id]
    /\ UNCHANGED <<deck, is_face_up, player, dealer_hand, player_hands, hand_bets,
                   hand_index, running, pc, results, save_file, rounds, shoe_ops>>

\* action 'p' on a hand that can be split
Split ==
    /\ prompting
    /\ can_split(current_hand, hand_bets, player)
    /\ LET current_bet == hand_bets[current_hand.id]
              card1       == current_hand.cards[1]
              card2       == current_hand.cards[2]
              id1         == 2 * Len(player_hands)
              d1          == draw(deck)
              hand1       == add_card(add_card(Hand(id1, "Player", TRUE), card1, is_face_up),
                                      drawn_card(d1), is_face_up)
              d2          == draw(d1)
              hand2       == add_card(add_card(Hand(id1 + 1, "Player", TRUE), card2, is_face_up),
                                      drawn_card(d2), is_face_up)
          IN  /\ player' = place_bet(player, current_bet)
              /\ deck' = d2
              /\ player_hands' = SubSeq(player_hands, 1, hand_index)
                                 \o <<hand1, hand2>>
                                 \o SubSeq(player_hands, hand_index + 2, Len(player_hands))
              /\ hand_bets' = bets_set(bets_set(bets_del(hand_bets, current_hand.id),
                                                id1, current_bet),
                                       id1 + 1, current_bet)
    /\ last_op' = [op |-> "split", hand |-> current_hand.id]
    /\ UNCHANGED <<is_face_up, dealer_hand, hand_index, running, pc, results,
                   save_file, rounds, shoe_ops>>

\* any other input: 'd' off two cards, 'p' on a hand that cannot be split,
\* or unrecognized text
InvalidAction ==
    /\ prompting
    /\ \E action \in ActionInputs :
          /\ action # "h" /\ action # "s"
          /\ ~(action = "d" /\ Len(current_hand.cards) = 2)
          /\ ~(action = "p" /\ can_split(current_hand, hand_bets, player))
          /\ last_op' = [op |-> "invalid", hand |-> current_hand.id, input |-> action]
    /\ UNCHANGED <<deck, is_face_up, player, dealer_hand, player_hands, hand_bets,
                   hand_index, running, pc, results, save_file, rounds, shoe_ops>>

\* any() in place of all()
any_busted(hands) == \E i \in DOMAIN hands : hands[i].is_busted

\* all(hand.is_busted for hand in self.player_hands)
all_busted(hands) == \A i \in DOMAIN hands : hands[i].is_busted

\* play_hand after player_turn: every hand busted, dealer_turn is not called
SkipDealer ==
    /\ pc = "outer"
    /\ hand_index >= Len(player_hands)
    /\ all_busted(player_hands)
    /\ pc' = "settle"
    /\ last_op' = [op |-> "skip_dealer"]
    /\ UNCHANGED <<deck, is_face_up, player, dealer_hand, player_hands, hand_bets,
                   hand_index, running, results, save_file, rounds, shoe_ops>>

\* play_hand after player_turn: dealer_turn starts and reveals the hidden card
DealerReveal ==
    /\ pc = "outer"
    /\ hand_index >= Len(player_hands)
    /\ ~all_busted(player_hands)
    /\ is_face_up' = [is_face_up EXCEPT ![dealer_hand[1].cards[2]] = TRUE]
    /\ pc' = "dealer"
    /\ last_op' = [op |-> "dealer_reveal"]
    /\ UNCHANGED <<deck, player, dealer_hand, player_hands, hand_bets, hand_index,
                   running, results, save_file, rounds, shoe_ops>>

\* the loop condition with the dealer also drawing on 17
dealer_must_draw_on_17(h, up) == get_value(h.cards, up) <= 17

\* the condition of the loop of dealer_turn
dealer_must_draw(h, up) == get_value(h.cards, up) < 17

\* dealer_turn: one pass of the loop
DealerDraw ==
    /\ pc = "dealer"
    /\ dealer_must_draw(dealer_hand[1], is_face_up)
    /\ LET d1 == draw(deck)
          IN  /\ deck' = d1
              /\ dealer_hand' = <<add_card(dealer_hand[1], drawn_card(d1), is_face_up)>>
    /\ last_op' = [op |-> "dealer_draw"]
    /\ UNCHANGED <<is_face_up, player, player_hands, hand_bets, hand_index, running,
                   pc, results, save_file, rounds, shoe_ops>>

\* dealer_turn: the loop ends; the dealer stands unless busted
DealerStop ==
    /\ pc = "dealer"
    /\ ~dealer_must_draw(dealer_hand[1], is_face_up)
    /\ dealer_hand' = IF ~dealer_hand[1].is_busted
                      THEN <<[dealer_hand[1] EXCEPT !.is_standing = TRUE]>>
                      ELSE dealer_hand
    /\ pc' = "settle"
    /\ last_op' = [op |-> "dealer_stop"]
    /\ UNCHANGED <<deck, is_face_up, player, player_hands, hand_bets, hand_index,
                   running, results, save_file, rounds, shoe_ops>>

\* Settle counting a win for every hand won
SettleCountingHands ==
    /\ pc = "settle"
    /\ LET acc == settle_hands(player_hands, 1, dealer_hand[1], hand_bets, is_face_up,
                               [balance |-> player.balance, total_payout |-> 0,
                                hands_won |-> 0, results |-> <<>>])
           p1  == [player EXCEPT !.balance = acc.balance,
                                 !.hands_played = @ + 1,
                                 !.hands_won = @ + acc.hands_won]
       IN  /\ player' = p1
           /\ results' = acc.results
           /\ save_file' = <<save_data(p1)>>
    /\ pc' = "continue"
    /\ last_op' = [op |-> "settle"]
    /\ UNCHANGED <<deck, is_face_up, dealer_hand, player_hands, hand_bets, hand_index,
                   running, rounds, shoe_ops>>

\* Settle crediting the payouts of the round as Player.win would
SettleThroughWin ==
    /\ pc = "settle"
    /\ LET acc == settle_hands(player_hands, 1, dealer_hand[1], hand_bets, is_face_up,
                               [balance |-> player.balance, total_payout |-> 0,
                                hands_won |-> 0, results |-> <<>>])
           p1  == [player EXCEPT !.balance = acc.balance,
                                 !.total_winnings = @ + acc.total_payout,
                                 !.hands_played = @ + 1,
                                 !.hands_won = IF acc.hands_won > 0 THEN @ + 1 ELSE @]
       IN  /\ player' = p1
           /\ results' = acc.results
           /\ save_file' = <<save_data(p1)>>
    /\ pc' = "continue"
    /\ last_op' = [op |-> "settle"]
    /\ UNCHANGED <<deck, is_face_up, dealer_hand, player_hands, hand_bets, hand_index,
                   running, rounds, shoe_ops>>

\* play_hand: every hand is settled, the counters updated, the player saved
Settle ==
    /\ pc = "settle"
    /\ LET acc == settle_hands(player_hands, 1, dealer_hand[1], hand_bets, is_face_up,
                               [balance |-> player.balance, total_payout |-> 0,
                                hands_won |-> 0, results |-> <<>>])
           p1  == [player EXCEPT !.balance = acc.balance,
                                 !.hands_played = @ + 1,
                                 !.hands_won = IF acc.hands_won > 0 THEN @ + 1 ELSE @]
       IN  /\ player' = p1
           /\ results' = acc.results
           /\ save_file' = <<save_data(p1)>>
    /\ pc' = "continue"
    /\ last_op' = [op |-> "settle"]
    /\ UNCHANGED <<deck, is_face_up, dealer_hand, player_hands, hand_bets, hand_index,
                   running, rounds, shoe_ops>>

\* "Press Enter to continue", then the loop of run: another round while the
\* balance is positive
Continue ==
    /\ pc = "continue"
    /\ running /\ player.balance > 0
    /\ pc' = "bet"
    /\ last_op' = [op |-> "continue"]
    /\ UNCHANGED <<deck, is_face_up, player, dealer_hand, player_hands, hand_bets,
                   hand_index, running, results, save_file, rounds, shoe_ops>>

\* "Press Enter to continue", then the loop of run ends: out of money
GameOver ==
    /\ pc = "continue"
    /\ ~(running /\ player.balance > 0)
    /\ pc' = "menu"
    /\ last_op' = [op |-> "game_over"]
    /\ UNCHANGED <<deck, is_face_up, player, dealer_hand, player_hands, hand_bets,
                   hand_index, running, results, save_file, rounds, shoe_ops>>

Next ==
    \/ BetRejected
    \/ BetQuit
    \/ PlaceBetAndDeal
    \/ AutoStandBlackjack
    \/ AutoStandSplitAce
    \/ EnterHand
    \/ LeaveHand
    \/ Hit
    \/ Stand
    \/ DoubleDown
    \/ DoubleRefused
    \/ Split
    \/ InvalidAction
    \/ SkipDealer
    \/ DealerReveal
    \/ DealerDraw
    \/ DealerStop
    \/ Settle
    \/ Continue
    \/ GameOver

Spec == Init /\ [][Next]_vars

---------------------------------------------------------------------------
(* Sessions: the saved record is loaded when a session starts *)

\* dict.get(key, default) on the record read from the save file
dict_get(data, key, default) ==
    IF key \in DOMAIN data THEN data[key] ELSE default

\* load_progress that reads the balance only
load_progress_balance_only(file, p) ==
    IF file = <<>> THEN p
    ELSE [p EXCEPT !.balance = file[1]["balance"]]

\* Player.load_progress on the new Player p: the player after the call; the
\* file is the one of the same sanitized name
load_progress(file, p) ==
    IF file = <<>> THEN p
    ELSE LET data == file[1]
         IN  [p EXCEPT !.balance = data["balance"],
                       !.total_winnings = dict_get(data, "total_winnings", 0),
                       !.hands_played = dict_get(data, "hands_played", 0),
                       !.hands_won = dict_get(data, "hands_won", 0)]

\* run, choice '1' after a game over: Player(name), load_progress, then the
\* loop of rounds while the balance is positive
StartSession ==
    /\ pc = "menu"
    /\ running
    /\ LET p1 == load_progress(save_file, NewPlayer)
       IN  /\ player' = p1
           /\ pc' = IF p1.balance > 0 THEN "bet" ELSE "menu"
    /\ last_op' = [op |-> "start_session"]
    /\ UNCHANGED <<deck, is_face_up, dealer_hand, player_hands, hand_bets, hand_index,
                   running, results, save_file, rounds, shoe_ops>>

\* main() run again after the program has ended: BlackjackGame.__init__ with
\* a new seed k, then run, choice '1' as in StartSession
NewProcess ==
    /\ pc = "exit"
    /\ \E k \in ShuffleChoices : deck' = reset(k)
    /\ is_face_up' = AllFaceUp
    /\ dealer_hand' = <<>>
    /\ player_hands' = <<>>
    /\ hand_bets' = <<>>
    /\ hand_index' = 0
    /\ running' = TRUE
    /\ results' = <<>>
    /\ LET p1 == load_progress(save_file, NewPlayer)
       IN  /\ player' = p1
           /\ pc' = IF p1.balance > 0 THEN "bet" ELSE "menu"
    /\ last_op' = [op |-> "new_process"]
    /\ UNCHANGED <<save_file, rounds, shoe_ops>>

NextSessions == Next \/ StartSession \/ NewProcess

SpecSessions == Init /\ [][NextSessions]_vars

---------------------------------------------------------------------------
(* Late in the shoe: rounds played when the shoe is close to its reshuffle *)

\* the shoe is within one round's draws of its reshuffle
late_in_shoe(d) ==
    4 * (Len(d.cards) - 8) < Len(d.cards) + Len(d.used_cards)

\* The rounds explored in full: those from the first round that starts, or
\* comes, late in the shoe.  Only these are counted in rounds.
InLateRounds == rounds > 0 \/ late_in_shoe(deck)

\* get_bet and play_hand early in the shoe: the player bets 100
EarlyBet ==
    /\ pc = "bet"
    /\ ~InLateRounds
    /\ can_bet(player, 100)
    /\ LET dealt == deal_initial_cards(deck, is_face_up,
                                       Hand(1, "Player", FALSE),
                                       Hand(0, "Dealer", FALSE))
       IN  /\ player' = place_bet(player, 100)
           /\ player_hands' = <<dealt.player_hand>>
           /\ hand_bets' = [i \in {1} |-> 100]
           /\ dealer_hand' = <<dealt.dealer_hand>>
           /\ deck' = dealt.deck
           /\ is_face_up' = dealt.is_face_up
    /\ last_op' = [op |-> "bet", input |-> 100]
    /\ hand_index' = 0
    /\ pc' = "outer"
    /\ UNCHANGED <<running, results, save_file, rounds, shoe_ops>>

\* Early in the shoe the player hits below 12 and stands from 12 on, or
\* splits where that is allowed.
EarlySplit ==
    /\ ~InLateRounds
    /\ Split

EarlyHit ==
    /\ ~InLateRounds
    /\ prompting
    /\ get_value(current_hand.cards, is_face_up) < 12
    /\ Hit

EarlyStand ==
    /\ ~InLateRounds
    /\ prompting
    /\ get_value(current_hand.cards, is_face_up) >= 12
    /\ Stand

\* the steps that ask the player nothing are those of Next, early and late
Unprompted ==
    \/ AutoStandBlackjack
    \/ AutoStandSplitAce
    \/ EnterHand
    \/ LeaveHand
    \/ SkipDealer
    \/ DealerReveal
    \/ DealerDraw
    \/ DealerStop
    \/ Settle
    \/ Continue
    \/ GameOver

\* late in the shoe the player types anything Next allows
LatePrompted ==
    \/ InLateRounds /\ BetRejected
    \/ InLateRounds /\ BetQuit
    \/ InLateRounds /\ PlaceBetAndDeal
    \/ InLateRounds /\ Hit
    \/ InLateRounds /\ Stand
    \/ InLateRounds /\ DoubleDown
    \/ InLateRounds /\ DoubleRefused
    \/ InLateRounds /\ Split
    \/ InLateRounds /\ InvalidAction

NextLateShoe ==
    \/ EarlyBet
    \/ EarlySplit
    \/ EarlyHit
    \/ EarlyStand
    \/ Unprompted
    \/ LatePrompted

SpecLateShoe == Init /\ [][NextLateShoe]_vars

---------------------------------------------------------------------------
(* Hand.get_value on its own: every hand of up to MaxHandCards cards *)

\* An empty hand.  The shoe plays no part in get_value and stays as built.
InitHand ==
    /\ deck = reset(1)
    /\ is_face_up = AllFaceUp
    /\ player = NewPlayer
    /\ dealer_hand = <<>>
    /\ player_hands = <<Hand(1, "Player", FALSE)>>
    /\ hand_bets = <<>>
    /\ hand_index = 0
    /\ running = TRUE
    /\ results = <<>>
    /\ last_op = NoOp
    /\ save_file = <<>>
    /\ rounds = 0
    /\ shoe_ops = [draws |-> 0, reshuffles |-> 0, drawn |-> <<>>]
    /\ pc = "get_value"

\* The hand receives one more card, of any rank, face-up or face-down.  The
\* i-th card comes from the i-th suit, so the cards are distinct objects.
TakeCard ==
    /\ pc = "get_value"
    /\ Len(player_hands[1].cards) < MaxHandCards
    /\ \E r \in 1 .. Len(Ranks), up \in BOOLEAN :
          LET h    == player_hands[1]
              card == (Len(h.cards) % Len(Suits)) * Len(Ranks) + r
              up1  == [is_face_up EXCEPT ![card] = up]
          IN  /\ is_face_up' = up1
              /\ player_hands' = <<add_card(h, card, up1)>>
    /\ results' = <<>>
    /\ last_op' = [op |-> "add_card"]
    /\ UNCHANGED <<deck, player, dealer_hand, hand_bets, hand_index, running, pc,
                   save_file, rounds, shoe_ops>>

\* a call of get_value on the hand
EvalValue ==
    /\ pc = "get_value"
    /\ results' = <<get_value(player_hands[1].cards, is_face_up)>>
    /\ last_op' = [op |-> "get_value"]
    /\ UNCHANGED <<deck, is_face_up, player, dealer_hand, player_hands, hand_bets,
                   hand_index, running, pc, save_file, rounds, shoe_ops>>

NextHand == TakeCard \/ EvalValue

SpecHand == InitHand /\ [][NextHand]_vars

\* the value of rank r with every Ace counted as 1
RankLowValue(r) ==
    LET i == CHOOSE j \in DOMAIN Ranks : Ranks[j] = r
    IN  IF i > 10 THEN 10 ELSE i

\* The reference: over the face-up cards, the sum with every Ace as 1, plus
\* 10 for each Ace counted as 11; the largest such sum up to 21, else the
\* smallest.
ReferenceValue(cs, up) ==
    LET shown == {i \in DOMAIN cs : up[cs[i]]}
        aces  == Cardinality({i \in shown : card_rank(cs[i]) = "A"})
        low[S \in SUBSET shown] ==
            IF S = {} THEN 0
            ELSE LET i == CHOOSE j \in S : TRUE
                 IN  RankLowValue(card_rank(cs[i])) + low[S \ {i}]
        sums  == {low[shown] + 10 * n : n \in 0 .. aces}
        good  == {t \in sums : t <= 21}
    IN  IF good # {} THEN CHOOSE t \in good : \A u \in good : u <= t
        ELSE CHOOSE t \in sums : \A u \in sums : t <= u

---------------------------------------------------------------------------
(* The shoe on its own: any sequence of draw() and reshuffle() *)

InitShoe ==
    /\ \E k \in ShuffleChoices : GameInit(k)
    /\ pc = "shoe"

ShoeDraw ==
    /\ pc = "shoe"
    /\ shoe_ops.draws < MaxDraws
    /\ deck' = draw(deck)
    /\ last_op' = [op |-> "draw", reshuffled |-> needs_reshuffle(deck)]
    /\ shoe_ops' = [shoe_ops EXCEPT !.draws = @ + 1,
                                    !.drawn = Append(@, drawn_card(deck'))]
    /\ UNCHANGED <<is_face_up, player, dealer_hand, player_hands, hand_bets,
                   hand_index, running, pc, results, save_file, rounds>>

ShoeReshuffle ==
    /\ pc = "shoe"
    /\ shoe_ops.reshuffles < MaxReshuffles
    /\ deck' = reshuffle(deck)
    /\ last_op' = [op |-> "reshuffle", reshuffled |-> TRUE]
    /\ shoe_ops' = [shoe_ops EXCEPT !.reshuffles = @ + 1]
    /\ UNCHANGED <<is_face_up, player, dealer_hand, player_hands, hand_bets,
                   hand_index, running, pc, results, save_file, rounds>>

NextShoe == ShoeDraw \/ ShoeReshuffle

SpecShoe == InitShoe /\ [][NextShoe]_vars

\* how many times the Card object c occurs in the list s
Occurrences(s, c) == Cardinality({i \in DOMAIN s : s[i] = c})

\* the Card objects of the list s
Members(s) == {s[i] : i \in DOMAIN s}

\* The two piles together hold every Card object that Deck.reset created
\* exactly once: as many entries as objects, and every object among them.
EveryCardOnce(d) ==
    /\ Len(d.cards) + Len(d.used_cards) = Cardinality(CardIds)
    /\ Members(d.cards) \cup Members(d.used_cards) = CardIds

ShoeSizeConserved ==
    /\ Len(deck.cards) + Len(deck.used_cards) = 52 * NumDecks
    /\ EveryCardOnce(deck)

DrawMovesOneCard ==
    (last_op'.op = "draw" /\ shoe_ops'.draws = shoe_ops.draws + 1) =>
        LET before == IF needs_reshuffle(deck)
                      THEN [undrawn |-> Len(deck.cards) + Len(deck.used_cards), used |-> 0]
                      ELSE [undrawn |-> Len(deck.cards), used |-> Len(deck.used_cards)]
            card   == deck'.used_cards[Len(deck'.used_cards)]
        IN  /\ Len(deck'.cards) = before.undrawn - 1
            /\ Len(deck'.used_cards) = before.used + 1
            /\ Occurrences(deck'.cards, card) = 0
            /\ Occurrences(deck'.used_cards, card) = 1
            /\ ~needs_reshuffle(deck) =>
                   /\ card = deck.cards[Len(deck.cards)]
                   /\ Members(deck'.cards) = Members(deck.cards) \ {card}
                   /\ Members(deck'.used_cards) = Members(deck.used_cards) \cup {card}

ReshuffleEmptiesUsed ==
    (last_op'.op = "reshuffle" /\ shoe_ops'.reshuffles = shoe_ops.reshuffles + 1) =>
        /\ deck'.used_cards = <<>>
        /\ Members(deck'.cards) = Members(deck.cards) \cup Members(deck.used_cards)

\* C1: on a shoe of NumDecks decks, after any sequence of draw() and
\* reshuffle(), len(cards) + len(used_cards) = 52 * NumDecks; a draw() moves
\* exactly one card from cards to used_cards (after its own reshuffle, when it
\* makes one); reshuffle() empties used_cards; and both leave the multiset
\* union of the two piles unchanged (every card is in the piles exactly once,
\* before and after).
C1_ShoeConserved ==
    /\ []ShoeSizeConserved
    /\ [][DrawMovesOneCard /\ ReshuffleEmptiesUsed]_vars

\* a draw() that reshuffled first, after an explicit reshuffle() earlier on
C1_Witness ==
    /\ pc = "shoe"
    /\ last_op.op = "draw" /\ last_op.reshuffled
    /\ shoe_ops.reshuffles > 0
    /\ Len(deck.used_cards) = 1

\* a step that is a call of draw() on the bare shoe
DrawStep == pc = "shoe" /\ shoe_ops'.draws = shoe_ops.draws + 1

\* a step that is a call of reshuffle() on the bare shoe
ReshuffleStep == pc = "shoe" /\ shoe_ops'.reshuffles = shoe_ops.reshuffles + 1

\* len(undrawn) < 0.25 * (len(undrawn) + len(used)), in quarters
BelowQuarter == 4 * Len(deck.cards) < Len(deck.cards) + Len(deck.used_cards)

DrawReshufflesBelowQuarter ==
    DrawStep =>
        IF BelowQuarter
        THEN /\ deck'.random_state # deck.random_state
             /\ Len(deck'.used_cards) = 1
             /\ Len(deck'.cards) = Len(deck.cards) + Len(deck.used_cards) - 1
        ELSE /\ deck'.random_state = deck.random_state
             /\ deck'.cards = SubSeq(deck.cards, 1, Len(deck.cards) - 1)
             /\ deck'.used_cards = Append(deck.used_cards, deck.cards[Len(deck.cards)])

\* C11: a draw() reshuffles first (the shuffle is made, used_cards is emptied
\* and then holds the one card drawn) exactly when at its start
\* len(cards) < 0.25 * (len(cards) + len(used_cards)); every other draw()
\* makes no shuffle and only moves the top card onto used_cards.
C11_ReshuffleTrigger == [][DrawReshufflesBelowQuarter]_vars

\* a draw() that reshuffled on its own, no reshuffle() having been called
C11_Witness ==
    /\ pc = "shoe" /\ last_op.op = "draw"
    /\ shoe_ops.reshuffles = 0
    /\ shoe_ops.draws > 1
    /\ Len(deck.used_cards) = 1

\* C12: whatever draws and reshuffles came before, at the moment a draw()
\* takes its card (after its own reshuffle, when it makes one) cards is not
\* empty, so draw() returns a card.
C12_DrawNeverFails ==
    (pc = "shoe") =>
        /\ Len((IF needs_reshuffle(deck) THEN reshuffle(deck) ELSE deck).cards) >= 1
        /\ Len(shoe_ops.drawn) = shoe_ops.draws

\* the undrawn pile at the least size a draw() starts from without reshuffling
C12_Witness ==
    /\ pc = "shoe" /\ last_op.op = "draw"
    /\ 4 * Len(deck.cards) = Len(deck.cards) + Len(deck.used_cards)
    /\ shoe_ops.draws < MaxDraws

\* the Hi-Lo value of a rank: 10/J/Q/K/A = -1, 2..6 = +1, 7/8/9 = 0
RefHiLo(r) ==
    IF r \in {"10", "J", "Q", "K", "A"} THEN -1
    ELSE IF r \in {"2", "3", "4", "5", "6"} THEN 1
    ELSE 0

RECURSIVE HiLoSum(_)
HiLoSum(s) ==
    IF s = <<>> THEN 0
    ELSE RefHiLo(card_rank(s[Len(s)])) + HiLoSum(SubSeq(s, 1, Len(s) - 1))

\* C13 as stated: running_count is the Hi-Lo sum of the cards in used_cards.
C13_CountIsSumOfUsed ==
    (pc = "shoe") => deck.running_count = HiLoSum(deck.used_cards)

\* no reshuffle since the shoe was built: used_cards holds every card drawn
NoReshuffleYet == deck.used_cards = shoe_ops.drawn

\* C13 amended: running_count is the Hi-Lo sum of all the cards drawn since
\* the shoe was built; these are the cards in used_cards as long as no
\* reshuffle has been made.
C13_CountIsSumOfDrawn ==
    (pc = "shoe") =>
        /\ deck.running_count = HiLoSum(shoe_ops.drawn)
        /\ NoReshuffleYet => deck.running_count = HiLoSum(deck.used_cards)

\* after a reshuffle, a count that is not the sum over used_cards
C13_Witness ==
    /\ pc = "shoe"
    /\ ~NoReshuffleYet
    /\ deck.running_count # HiLoSum(deck.used_cards)
    /\ deck.running_count = HiLoSum(shoe_ops.drawn)

CountKeptByReshuffle ==
    /\ ReshuffleStep => deck'.running_count = deck.running_count
    /\ DrawStep =>
          deck'.running_count = deck.running_count + RefHiLo(card_rank(drawn_card(deck')))

\* C14: a reshuffle, explicit or made by draw(), leaves running_count as it
\* was (the draw then adds the value of its card); the count is 0 only as
\* set by building the shoe.
C14_ReshuffleKeepsCount ==
    /\ []((pc = "shoe" /\ shoe_ops.draws = 0) => deck.running_count = 0)
    /\ [][CountKeptByReshuffle]_vars

\* an explicit reshuffle() made on a count that is not 0
C14_Witness ==
    /\ pc = "shoe" /\ last_op.op = "reshuffle"
    /\ deck.used_cards = <<>>
    /\ deck.running_count # 0

---------------------------------------------------------------------------
(* Settlement *)

\* a natural blackjack, by the reference value
RefNatural(h, up) ==
    Len(h.cards) = 2 /\ ReferenceValue(h.cards, up) = 21 /\ ~h.is_split

\* The rules of settlement in their order; the outcome is that of the first
\* rule that applies.  twice is two times the payout.
SettlementRules(h, dh, bet, up) ==
    LET pv == ReferenceValue(h.cards, up)
        dv == ReferenceValue(dh.cards, up)
    IN  << [when |-> h.is_busted,                             winner |-> "dealer", twice |-> 0],
           [when |-> dh.is_busted,                            winner |-> "player", twice |-> 4 * bet],
           [when |-> RefNatural(h, up) /\ ~RefNatural(dh, up), winner |-> "player", twice |-> 5 * bet],
           [when |-> RefNatural(dh, up) /\ ~RefNatural(h, up), winner |-> "dealer", twice |-> 0],
           [when |-> pv > dv,                                 winner |-> "player", twice |-> 4 * bet],
           [when |-> dv > pv,                                 winner |-> "dealer", twice |-> 0],
           [when |-> TRUE,                                    winner |-> "push",   twice |-> 2 * bet] >>

FirstRule(rules) ==
    rules[CHOOSE i \in DOMAIN rules :
              rules[i].when /\ \A j \in 1 .. (i - 1) : ~rules[j].when]

\* the round has been settled: results holds one entry per player hand
Settled == pc = "continue"

C4_NaturalPaysThreeToTwo ==
    Settled =>
        \A i \in DOMAIN player_hands :
            (RefNatural(player_hands[i], is_face_up) /\ ~RefNatural(dealer_hand[1], is_face_up)) =>
                /\ results[i].winner = "player"
                /\ 2 * results[i].payout = 5 * results[i].bet

\* a hand made by splitting Aces
FromAceSplit(h) == h.is_split /\ h.cards # <<>> /\ card_rank(h.cards[1]) = "A"

InRound == pc \in {"outer", "inner", "dealer", "settle", "continue"}

\* C5: a hand made by splitting Aces never holds more than 2 cards and is
\* never at the action prompt.
C5_SplitAcesOneCard ==
    InRound =>
        \A i \in DOMAIN player_hands :
            FromAceSplit(player_hands[i]) =>
                /\ Len(player_hands[i].cards) <= 2
                /\ ~(prompting /\ hand_index + 1 = i)

---------------------------------------------------------------------------
(* The dealer *)

DealerValue == ReferenceValue(dealer_hand[1].cards, is_face_up)

HoleCardUp == is_face_up[dealer_hand[1].cards[2]]

DealerRevealedFirst == (pc = "dealer") => HoleCardUp

DealerDrawsBelow17 ==
    (pc = "dealer") =>
        IF DealerValue < 17
        THEN /\ pc' = "dealer"
             /\ dealer_hand'[1].cards = Append(dealer_hand[1].cards, drawn_card(deck'))
             /\ Len(deck'.cards) + Len(deck'.used_cards) = Len(deck.cards) + Len(deck.used_cards)
             /\ deck' # deck
        ELSE /\ pc' = "settle"
             /\ dealer_hand'[1].cards = dealer_hand[1].cards
             /\ deck' = deck

DealerEnds ==
    (pc = "settle" /\ last_op.op = "dealer_stop") =>
        /\ DealerValue >= 17
        /\ \/ /\ dealer_hand[1].is_standing /\ ~dealer_hand[1].is_busted
              /\ DealerValue <= 21
           \/ /\ dealer_hand[1].is_busted /\ ~dealer_hand[1].is_standing
              /\ DealerValue > 21

\* C6: when the dealer acts, the hidden card is face-up from the start; the
\* dealer draws one card exactly while the value is below 17 and stops at 17
\* or more; at the end the value is at least 17 and the dealer is either
\* standing on 17..21 or busted above 21.
C6_DealerPolicy ==
    /\ [](DealerRevealedFirst /\ DealerEnds)
    /\ [][DealerDrawsBelow17]_vars

\* the dealer drew to a bust
C6_Witness ==
    /\ pc = "settle" /\ last_op.op = "dealer_stop"
    /\ Len(dealer_hand[1].cards) >= 3
    /\ dealer_hand[1].is_busted

EveryHandBusted == \A i \in DOMAIN player_hands : player_hands[i].is_busted

DealerUntouched ==
    /\ Len(dealer_hand[1].cards) = 2
    /\ ~HoleCardUp
    /\ ~dealer_hand[1].is_standing /\ ~dealer_hand[1].is_busted

PlayerTurnOver == pc = "outer" /\ hand_index >= Len(player_hands)

DealerSkippedIffAllBusted ==
    PlayerTurnOver =>
        IF EveryHandBusted
        THEN /\ pc' = "settle"
             /\ deck' = deck /\ dealer_hand' = dealer_hand /\ is_face_up' = is_face_up
        ELSE /\ pc' = "dealer"
             /\ is_face_up'[dealer_hand[1].cards[2]]

DealerActedUnlessAllBusted ==
    (pc \in {"settle", "continue"}) =>
        IF EveryHandBusted THEN DealerUntouched
        ELSE HoleCardUp /\ (dealer_hand[1].is_standing \/ dealer_hand[1].is_busted)

\* C7: the dealer's turn is skipped exactly when every player hand is busted
\* at the end of the player's turn: then the shoe and the dealer's hand are
\* left as they are and the dealer's second card stays face-down; otherwise
\* the dealer acts.
C7_DealerSkip ==
    /\ []DealerActedUnlessAllBusted
    /\ [][DealerSkippedIffAllBusted]_vars

\* settlement reached with the dealer's turn skipped
C7_Witness ==
    /\ pc = "settle" /\ last_op.op = "skip_dealer"
    /\ EveryHandBusted /\ DealerUntouched

---------------------------------------------------------------------------
(* Split and Double *)

\* a step of the action prompt that adds a hand
SplitStep == pc = "inner" /\ Len(player_hands') # Len(player_hands)

SplitEffect ==
    SplitStep =>
        LET i    == hand_index + 1
            old  == player_hands[i]
            bet  == hand_bets[old.id]
            h1   == player_hands'[i]
            h2   == player_hands'[i + 1]
            used == deck'.used_cards
        IN  /\ Len(old.cards) = 2
            /\ card_rank(old.cards[1]) = card_rank(old.cards[2])
            /\ player.balance >= bet
            /\ player'.balance = player.balance - bet
            /\ Len(player_hands') = Len(player_hands) + 1
            /\ \A j \in 1 .. (i - 1) : player_hands'[j] = player_hands[j]
            /\ \A j \in (i + 1) .. Len(player_hands) : player_hands'[j + 1] = player_hands[j]
            /\ h1.is_split /\ h2.is_split
            /\ Len(used) >= 2
            /\ h1.cards = <<old.cards[1], used[Len(used) - 1]>>
            /\ h2.cards = <<old.cards[2], used[Len(used)]>>
            /\ h1.id # h2.id
            /\ DOMAIN hand_bets' = ((DOMAIN hand_bets) \ {old.id}) \cup {h1.id, h2.id}
            /\ old.id \notin DOMAIN hand_bets'
            /\ hand_bets'[h1.id] = bet /\ hand_bets'[h2.id] = bet
            /\ \A id \in (DOMAIN hand_bets) \ {old.id} : hand_bets'[id] = hand_bets[id]
            /\ pc' = "inner" /\ hand_index' = hand_index

\* C8: a split happens only on a hand of exactly 2 cards of equal rank with
\* balance >= the hand's bet; it takes one more stake equal to that bet,
\* puts two is_split hands in the place of the hand, each with one of the
\* two cards and one newly drawn card, records the bet for each, removes the
\* old hand's bet, and play goes on at the first new hand.
C8_Split == [][SplitEffect]_vars

\* the first hand of a split is at the prompt
C8_Witness ==
    /\ pc = "inner" /\ last_op.op = "split"
    /\ Len(player_hands) = 2
    /\ player_hands[1].is_split /\ player_hands[2].is_split
    /\ hand_index = 0

\* a step of the action prompt that changes a bet without adding a hand
DoubleStep ==
    pc = "inner" /\ hand_bets' # hand_bets /\ Len(player_hands') = Len(player_hands)

DoubleEffect ==
    DoubleStep =>
        LET i   == hand_index + 1
            old == player_hands[i]
            bet == hand_bets[old.id]
            new == player_hands'[i]
        IN  /\ Len(old.cards) = 2
            /\ player.balance >= bet
            /\ player'.balance = player.balance - bet
            /\ DOMAIN hand_bets' = DOMAIN hand_bets
            /\ hand_bets'[old.id] = 2 * bet
            /\ \A id \in (DOMAIN hand_bets) \ {old.id} : hand_bets'[id] = hand_bets[id]
            /\ new.cards = Append(old.cards, drawn_card(deck'))
            /\ Len(deck'.cards) + Len(deck'.used_cards) = Len(deck.cards) + Len(deck.used_cards)
            /\ deck' # deck
            /\ new.is_standing
            /\ \A j \in DOMAIN player_hands : j # i => player_hands'[j] = player_hands[j]

\* The bets typed are in BetInputs and twice such a bet is not: a hand whose
\* recorded bet is outside BetInputs has been doubled.
Doubled(h) == h.id \in DOMAIN hand_bets /\ hand_bets[h.id] \notin BetInputs

DoubledHandsStand ==
    InRound =>
        \A i \in DOMAIN player_hands :
            Doubled(player_hands[i]) =>
                Len(player_hands[i].cards) = 3 /\ player_hands[i].is_standing

\* C9: a double happens only on a hand of exactly 2 cards with balance >= the
\* hand's bet; it takes that amount from the balance, doubles the recorded
\* bet, draws one card into the hand and makes the hand stand; from then on
\* the hand holds exactly 3 cards and stands.
C9_Double ==
    /\ []DoubledHandsStand
    /\ [][DoubleEffect]_vars

\* a doubled hand that busted on its one card
C9_Witness ==
    /\ InRound
    /\ \E i \in DOMAIN player_hands :
          /\ Doubled(player_hands[i])
          /\ player_hands[i].is_busted /\ player_hands[i].is_standing

\* is_blackjack of a hand is the reference: 2 cards, worth 21, not from a split
NaturalIsReference(h) ==
    is_blackjack(h, is_face_up) <=>
        /\ Len(h.cards) = 2
        /\ ReferenceValue(h.cards, is_face_up) = 21
        /\ ~h.is_split

\* C10: in every state of a round, every hand (the player's hands and the
\* dealer's) is a natural blackjack exactly when it holds 2 cards, is worth
\* 21 and was not made by a split; and at settlement no hand made by a split
\* is paid 2.5 times its bet.
C10_NaturalNotFromSplit ==
    /\ \A i \in DOMAIN player_hands : NaturalIsReference(player_hands[i])
    /\ \A i \in DOMAIN dealer_hand : NaturalIsReference(dealer_hand[i])
    /\ Settled =>
          \A i \in DOMAIN player_hands :
              player_hands[i].is_split => 2 * results[i].payout # 5 * results[i].bet

\* a split hand of two cards worth 21 that won 2 times its bet
C10_Witness ==
    /\ Settled
    /\ \E i \in DOMAIN player_hands :
          /\ player_hands[i].is_split
          /\ Len(player_hands[i].cards) = 2
          /\ ReferenceValue(player_hands[i].cards, is_face_up) = 21
          /\ results[i].winner = "player"
          /\ results[i].payout = 2 * results[i].bet

---------------------------------------------------------------------------
(* Rejected input, the balance, the counters *)

\* the frame a rejected input leaves alone, and the prompt that comes again
NothingMutated ==
    /\ player' = player /\ hand_bets' = hand_bets
    /\ player_hands' = player_hands /\ dealer_hand' = dealer_hand
    /\ deck' = deck /\ is_face_up' = is_face_up
    /\ pc' = pc /\ hand_index' = hand_index

\* the step answers the bet prompt with a number
BetTyped == pc = "bet" /\ last_op'.op \in {"bet", "bet_rejected"}

\* the step answers the action prompt with 'd', with 'p', with unknown text
DoubleTyped ==
    /\ prompting
    /\ \/ last_op'.op \in {"double", "double_refused"}
       \/ last_op'.op = "invalid" /\ last_op'.input = "d"

SplitTyped ==
    /\ prompting
    /\ \/ last_op'.op = "split"
       \/ last_op'.op = "invalid" /\ last_op'.input = "p"

UnknownTyped == prompting /\ last_op'.op = "invalid" /\ last_op'.input = "x"

\* the hand at the prompt can be split: 2 cards of one rank, the bet covered
Splittable ==
    /\ Len(current_hand.cards) = 2
    /\ card_rank(current_hand.cards[1]) = card_rank(current_hand.cards[2])
    /\ player.balance >= hand_bets[current_hand.id]

RejectedInputMutatesNothing ==
    /\ (BetTyped /\ (last_op'.input <= 0 \/ last_op'.input > player.balance))
          => NothingMutated
    /\ UnknownTyped => NothingMutated
    /\ (DoubleTyped /\ (Len(current_hand.cards) # 2
                         \/ player.balance < hand_bets[current_hand.id]))
          => NothingMutated
    /\ (SplitTyped /\ ~Splittable) => NothingMutated

\* C15: a bet that is not positive or above the balance, unknown text at the
\* action prompt, 'd' on a hand without exactly 2 cards or with the balance
\* below the hand's bet, and 'p' on a hand that cannot be split leave the
\* balance, the bets, the hands and the shoe as they were, and the same
\* prompt comes again.
C15_RejectedInput == [][RejectedInputMutatesNothing]_vars

\* a double refused for lack of funds, the hand still at the prompt
C15_Witness ==
    /\ prompting
    /\ last_op.op = "double_refused"
    /\ Len(current_hand.cards) = 2
    /\ player.balance < hand_bets[current_hand.id]

\* the stake a step of the bet prompt or of the action prompt is about
StakeAsked ==
    IF pc = "bet" THEN last_op'.input ELSE hand_bets[current_hand.id]

DeductionsCovered ==
    (player'.balance < player.balance) =>
        /\ pc = "bet" \/ prompting
        /\ StakeAsked > 0
        /\ StakeAsked <= player.balance
        /\ player'.balance = player.balance - StakeAsked

\* C16: the balance is never negative; it goes down only by a bet with
\* 0 < bet <= balance or by the hand's bet on a double or a split made with
\* balance >= that bet.
C16_BalanceNeverNegative ==
    /\ [](player.balance >= 0)
    /\ [][DeductionsCovered]_vars

\* a bet of the whole balance, accepted
C16_Witness ==
    /\ pc = "outer" /\ last_op.op = "bet"
    /\ last_op.input = StartingBalance
    /\ player.balance = 0

SettleStep == pc = "settle" /\ pc' = "continue"

CountersPerRound ==
    IF SettleStep
    THEN /\ player'.hands_played = player.hands_played + 1
         /\ player'.hands_won = player.hands_won
                + (IF \E i \in DOMAIN results' : results'[i].winner = "player"
                   THEN 1 ELSE 0)
    ELSE /\ player'.hands_played = player.hands_played
         /\ player'.hands_won = player.hands_won

\* C17: settlement adds 1 to hands_played, and 1 to hands_won exactly when
\* some hand of the round is a player win; no other step, quitting at the
\* bet prompt included, changes either counter; hands_won <= hands_played.
C17_RoundCounters ==
    /\ [](player.hands_won <= player.hands_played)
    /\ [][CountersPerRound]_vars

\* a split round with both hands won, counted as one hand won
C17_Witness ==
    /\ Settled
    /\ Len(results) = 2
    /\ results[1].winner = "player" /\ results[2].winner = "player"
    /\ player.hands_played = 1 /\ player.hands_won = 1

\* The balance before the bet of the current round: the balance the last
\* settled round saved, or the starting balance in the first round.
BalanceBeforeBet ==
    IF save_file = <<>> THEN StartingBalance ELSE save_file[1].balance

RECURSIVE SumOver(_, _)
SumOver(f, S) ==
    IF S = {} THEN 0
    ELSE LET x == CHOOSE y \in S : TRUE IN f[x] + SumOver(f, S \ {x})

\* all the stakes recorded for the hands of the round
BetsTotal == SumOver(hand_bets, DOMAIN hand_bets)

\* all the payouts of a settlement
PayoutTotal(res) == SumOver([i \in DOMAIN res |-> res[i].payout], DOMAIN res)

\* during a round the stakes taken from the balance are the recorded bets
StakesAreRecordedBets ==
    (pc \in {"outer", "inner", "dealer", "settle"}) =>
        player.balance = BalanceBeforeBet - BetsTotal

SettlementCreditsPayouts ==
    SettleStep =>
        /\ player'.balance = BalanceBeforeBet - BetsTotal + PayoutTotal(results')
        /\ (\A i \in DOMAIN results' : results'[i].winner = "push")
              => player'.balance = BalanceBeforeBet

\* C18: the balance after settlement is the balance before the bet, minus
\* every stake taken in the round (bet, double, split), plus the payouts of
\* all hands; when every hand is a push it is the balance before the bet.
C18_BalanceAfterRound ==
    /\ []StakesAreRecordedBets
    /\ [][SettlementCreditsPayouts]_vars

\* a split round settled with every hand a push
C18_Witness ==
    /\ Settled
    /\ \A i \in DOMAIN results : results[i].winner = "push"
    /\ Len(results) > 1
    /\ player.balance = StartingBalance /\ player.hands_played = 1

---------------------------------------------------------------------------
(* Persistence *)

\* a step that starts a session: a new Player is made and the file loaded
SessionStarts == pc \in {"menu", "exit"} /\ pc' \in {"bet", "menu"}

\* The player at the end of a session still holds the values of the end of
\* its last settled round, and the file holds the record saved then.
LoadRestoresPlayer ==
    (SessionStarts /\ save_file # <<>>) =>
        /\ player'.balance = player.balance
        /\ player'.total_winnings = player.total_winnings
        /\ player'.hands_played = player.hands_played
        /\ player'.hands_won = player.hands_won

\* the record saved by the settlement is the player as settled
SavedAtSettlement ==
    Settled =>
        /\ save_file # <<>>
        /\ save_file[1]["balance"] = player.balance
        /\ save_file[1]["total_winnings"] = player.total_winnings
        /\ save_file[1]["hands_played"] = player.hands_played
        /\ save_file[1]["hands_won"] = player.hands_won

\* C19: the record saved at the end of a settled round holds the player's
\* balance, total_winnings, hands_played and hands_won of that moment, and
\* the session that loads it next starts with exactly these four values.
C19_SaveLoadRoundTrip ==
    /\ []SavedAtSettlement
    /\ [][LoadRestoresPlayer]_vars

\* a new run of the program that loaded a round won in the run before
C19_Witness ==
    /\ pc = "bet" /\ last_op.op = "new_process"
    /\ player.hands_played > 0 /\ player.hands_won > 0
    /\ player.balance > StartingBalance

---------------------------------------------------------------------------
(* Card faces *)

\* the Card objects that are face-down, wherever they are
FaceDownCards == {c \in CardIds : ~is_face_up[c]}

\* the second card of the dealer's hand of the current round, if dealt
HoleCard ==
    IF dealer_hand # <<>> /\ Len(dealer_hand[1].cards) >= 2
    THEN {dealer_hand[1].cards[2]}
    ELSE {}

\* C20: every card in a player hand is face-up, and the only card that is
\* ever face-down, in the shoe, the used pile or a hand, is the second card
\* of the dealer's hand of the current round.
C20_OnlyHoleCardFaceDown ==
    /\ \A i \in DOMAIN player_hands :
          \A j \in DOMAIN player_hands[i].cards : is_face_up[player_hands[i].cards[j]]
    /\ FaceDownCards \subseteq HoleCard

---------------------------------------------------------------------------
(* The bust flag and the cards held, late in the shoe *)

\* a round is being played: dealt and not yet settled
RoundInProgress == pc \in {"outer", "inner", "dealer", "settle"}

\* is_busted says what get_value says
BustFlagMatchesValue(h) == h.is_busted <=> get_value(h.cards, is_face_up) > 21

\* the hands settled as a win or a push hold no more than 21
WinnersWithin21 ==
    Settled =>
        \A i \in DOMAIN results :
            results[i].winner \in {"player", "push"}
                => get_value(player_hands[i].cards, is_face_up) <= 21

\* C21: in every state of a round, settlement included, is_busted of every
\* player hand and of the dealer's hand is true exactly when the hand's best
\* value is above 21, and no hand with a best value above 21 is settled as a
\* win or a push.
C21_BustFlagIffOver21 ==
    InRound =>
        /\ \A i \in DOMAIN player_hands : BustFlagMatchesValue(player_hands[i])
        /\ BustFlagMatchesValue(dealer_hand[1])
        /\ WinnersWithin21

\* the Card objects held by the hands of the round
HeldCards ==
    UNION {Members(player_hands[i].cards) : i \in DOMAIN player_hands}
        \cup Members(dealer_hand[1].cards)

\* the number of cards the hands of the round hold
RECURSIVE CardsIn(_)
CardsIn(hands) ==
    IF hands = <<>> THEN 0 ELSE Len(hands[1].cards) + CardsIn(Tail(hands))

\* C22: while a round is in progress no card held by a player hand or by the
\* dealer's hand is among the undrawn cards of the shoe, and no card is held
\* twice.
C22_HeldCardsNotInShoe ==
    RoundInProgress =>
        /\ HeldCards \cap Members(deck.cards) = {}
        /\ CardsIn(player_hands \o dealer_hand) = Cardinality(HeldCards)

---------------------------------------------------------------------------
(* The bets of the hands in play *)

\* the identities of the player hands in play
HandsInPlay == {player_hands[i].id : i \in DOMAIN player_hands}

\* every hand in play has one recorded bet, and no other hand has one
OneBetPerHand ==
    /\ DOMAIN hand_bets = HandsInPlay
    /\ Cardinality(HandsInPlay) = Len(player_hands)

\* C23: from the deduction of the initial bet until settlement begins, the
\* hands with a recorded bet are the player hands in play, and the balance
\* plus all recorded bets is the balance held before the bet was placed.
C23_BetsMatchHands ==
    RoundInProgress =>
        /\ OneBetPerHand
        /\ player.balance + BetsTotal = BalanceBeforeBet

\* a round about to be settled in which a hand was split and one of the two
\* new hands then doubled
C23_Witness ==
    /\ pc = "settle"
    /\ Len(player_hands) = 2
    /\ \E i, j \in DOMAIN player_hands :
          hand_bets[player_hands[i].id] = 2 * hand_bets[player_hands[j].id]
    /\ player.balance + BetsTotal = BalanceBeforeBet

---------------------------------------------------------------------------
(* The order of play of the player's hands *)

\* player_turn is running
PlayerActing == pc \in {"outer", "inner"}

\* the hand has been played to its end
HandDone(h) == h.is_standing \/ h.is_busted

\* the hands to the left of the hand being played are done
HandsLeftAreDone ==
    PlayerActing =>
        \A i \in DOMAIN player_hands : i <= hand_index => HandDone(player_hands[i])

\* when player_turn ends every hand is done
AllDoneAtEnd ==
    PlayerTurnOver => \A i \in DOMAIN player_hands : HandDone(player_hands[i])

\* the hands to the right of the hand being played
HandsRight(hands, index) == SubSeq(hands, index + 2, Len(hands))

\* One step of player_turn: the index stays or moves one hand to the right,
\* and moves only off a hand that is done; the hands on the left are not
\* touched again; the hands on the right wait untouched, a split putting its
\* two hands in the place of the hand played, before them.
LeftToRight ==
    (PlayerActing /\ hand_index < Len(player_hands) /\ pc' \in {"outer", "inner"}) =>
        /\ hand_index' \in {hand_index, hand_index + 1}
        /\ hand_index' = hand_index + 1 => HandDone(player_hands'[hand_index + 1])
        /\ SubSeq(player_hands', 1, hand_index) = SubSeq(player_hands, 1, hand_index)
        /\ HandsRight(player_hands', hand_index + Len(player_hands') - Len(player_hands))
              = HandsRight(player_hands, hand_index)
        /\ Len(player_hands') \in {Len(player_hands), Len(player_hands) + 1}
        /\ Len(player_hands') = Len(player_hands) + 1 => hand_index' = hand_index

\* the round's only hand is a natural blackjack
NaturalAlone ==
    Len(player_hands) = 1 /\ is_blackjack(player_hands[1], is_face_up)

\* a lone natural is never at the action prompt, and its turn is one step
\* that makes it stand and draws nothing
NaturalNotPrompted == (RoundInProgress /\ NaturalAlone) => pc # "inner"

NaturalStandsAtOnce ==
    (pc = "outer" /\ hand_index = 0 /\ NaturalAlone /\ hand_index' # hand_index) =>
        /\ player_hands' = <<[player_hands[1] EXCEPT !.is_standing = TRUE]>>
        /\ deck' = deck
        /\ hand_index' = 1

\* C24: the player's hands are played in increasing position, the two hands
\* of a split before any hand further right; when the player's turn ends
\* every hand is standing or busted; a lone natural blackjack stands without
\* a prompt and without a draw.
C24_HandsPlayedInOrder ==
    /\ []HandsLeftAreDone
    /\ []AllDoneAtEnd
    /\ []NaturalNotPrompted
    /\ [][LeftToRight]_vars
    /\ [][NaturalStandsAtOnce]_vars

\* the end of the player's turn in a round with two splits, the second one
\* made on the left hand of the first while the right hand (3) waited
C24_Witness ==
    /\ PlayerTurnOver
    /\ Len(player_hands) = 3
    /\ player_hands[3].id = 3
    /\ \A i \in DOMAIN player_hands : HandDone(player_hands[i])

---------------------------------------------------------------------------
(* The end of a round *)

\* the lowest total get_value works with: every Ace counted 1
min_total(h, up) == SeqMin(possible_values(h.cards, up))

\* a step that adds a card to the hand being played: a hit or a double
PlayerDrawStep ==
    pc = "inner" /\ Len(player_hands') = Len(player_hands) /\ deck' # deck

\* a step that adds a card to the dealer's hand
DealerDrawStep == pc = "dealer" /\ deck' # deck

\* every card drawn raises the lowest total of its hand by 1 at least
DrawRaisesMinimum ==
    /\ PlayerDrawStep =>
          min_total(player_hands'[hand_index + 1], is_face_up')
              >= min_total(current_hand, is_face_up) + 1
    /\ DealerDrawStep =>
          min_total(dealer_hand'[1], is_face_up')
              >= min_total(dealer_hand[1], is_face_up) + 1

\* no hand is asked for an action, and no dealer draws, above a lowest total
\* of 21
NoPlayAbove21 ==
    /\ prompting => min_total(current_hand, is_face_up) <= 21
    /\ (pc = "dealer" /\ dealer_must_draw(dealer_hand[1], is_face_up))
          => min_total(dealer_hand[1], is_face_up) < 17

\* every split takes a positive stake from a balance that stays at 0 or above
SplitConsumesStake ==
    SplitStep => player'.balance < player.balance /\ player'.balance >= 0

\* C25: every round past the bet comes to its end under legal play, for
\* these reasons: every card drawn raises the lowest total of its hand by 1
\* at least and nobody draws above a lowest total of 21, so that a hand that
\* keeps being hit busts and the dealer stops after a bounded number of
\* draws; every split takes a positive stake from a balance that is never
\* negative.
C25_DrawsAndSplitsBounded ==
    /\ []NoPlayAbove21
    /\ [][DrawRaisesMinimum]_vars
    /\ [][SplitConsumesStake]_vars

---------------------------------------------------------------------------
(* The total of the winnings *)

\* no step of a round, the settlement included, changes total_winnings
RoundsKeepTotalWinnings ==
    ~SessionStarts => player'.total_winnings = player.total_winnings

\* a session starts with the total of the file, or 0 when there is no file
SessionStartsFromFile ==
    SessionStarts =>
        player'.total_winnings =
            IF save_file = <<>> THEN 0 ELSE save_file[1]["total_winnings"]

\* C26: no round changes the player's total_winnings: through any sequence
\* of rounds and sessions, winning rounds included, it keeps the value the
\* player was created or loaded with, which is 0 for a new player and so 0
\* in every record saved; the settlement adds the payouts to the balance
\* only.
C26_TotalWinningsUnchanged ==
    /\ [](player.total_winnings = 0)
    /\ [](save_file # <<>> => save_file[1]["total_winnings"] = 0)
    /\ [][RoundsKeepTotalWinnings]_vars
    /\ [][SessionStartsFromFile]_vars

\* a second winning round settled and paid, the total still 0
C26_Witness ==
    /\ Settled
    /\ \E i \in DOMAIN results : results[i].winner = "player" /\ results[i].payout > 0
    /\ player.hands_won = 2
    /\ player.balance > StartingBalance
    /\ player.total_winnings = 0

====
